---------------------------- MODULE Spec2Model ----------------------------
(***************************************************************************)
(* Hodgkin-Huxley real-time simulator (felixmaldonadoos/hhsim):            *)
(* python/model.py (class Model) and python/app.py (class App).            *)
(*                                                                         *)
(* Representation of the program's floating-point quantities.  Every real  *)
(* is kept as an integer count of a fixed unit:                            *)
(*   time (sim_time, dt, injection_duration, injection_end_time)  1e-3 ms  *)
(*   timer_interval                                               1 ms     *)
(*   potentials (V, E_Na, E_K, E_L)                               1e-3 mV  *)
(*   C_m, g_Na, g_K, g_L (as stored)                              1e-3     *)
(*   currents (I_ext, I_Na, I_K, I_L, injection_amplitude)        1e-3     *)
(*   gating variables m, h, n, rates alpha/beta, exp values       1e-6     *)
(*   arguments of exp                                             1e-4     *)
(* Products and quotients are rounded to the nearest unit, and every       *)
(* intermediate value is kept below 2^31.                                  *)
(***************************************************************************)
EXTENDS Integers, Sequences, FiniteSets, TLC

\* ------------------------------------------------------------------------
\* Fixed-point arithmetic standing for the float operations of model.py
\* ------------------------------------------------------------------------

\* one unit of a gating variable, a rate or an exp value: 1e-6
GU == 10^6

\* one unit of an exp argument: 1e-4
AU == 10^4

\* largest exp value that is represented (2000.0); exp arguments above
\* 7.5 saturate here.  A step is taken only from V >= -100 mV (InRange),
\* where no argument reaches it.
MaxExp == 2 * 10^9

Abs(x) == IF x < 0 THEN -x ELSE x

Max2(a, b) == IF a >= b THEN a ELSE b

Min2(a, b) == IF a <= b THEN a ELSE b

\* a / d rounded to the nearest integer (d > 0)
RoundDiv(a, d) == (a + d \div 2) \div d

\* a * b / d rounded to the nearest integer, for d > 0 and d * |b| < 2^31,
\* without forming a * b
MulDiv(a, b, d) == (a \div d) * b + ((a % d) * b + d \div 2) \div d

\* a * b / 1e6: the product of a value a and a 1e-6-unit value b, in a's unit
Mul6(a, b) == MulDiv(a, b \div 1000, 1000) + MulDiv(a, b % 1000, GU)

\* num * 1e3 / den rounded, by long division (0 < den <= 2e6)
LongDiv3(num, den) ==
    LET r == num % den
    IN (num \div den) * 1000 + (r * 1000 + den \div 2) \div den

\* num * 1e6 / den rounded, by long division (0 < den <= 2e6)
LongDiv6(num, den) ==
    LET r0 == num % den
        q1 == (r0 * 1000) \div den
        r1 == (r0 * 1000) % den
    IN ((num \div den) * 1000 + q1) * 1000 + (r1 * 1000 + den \div 2) \div den

\* the quotient num / den of two values of the same unit, in 1e-6 units
DivFix6(num, den) ==
    LET n1 == IF den < 0 THEN -num ELSE num
        d1 == Abs(den)
    IN IF d1 > 2 * GU THEN LongDiv3(n1, d1 \div 1000) ELSE LongDiv6(n1, d1)

\* e^k for k = 0..7 in 1e-3 units
ExpPos == <<1000, 2718, 7389, 20086, 54598, 148413, 403429, 1096633>>

\* e^(-k) for k = 0..21 in 1e-9 units
ExpNeg == <<1000000000, 367879441, 135335283, 49787068, 18315639, 6737947,
            2478752, 911882, 335463, 123410, 45400, 16702, 6144, 2260, 832,
            306, 113, 41, 15, 6, 2, 1>>

\* np.exp(a): a = k + f with k the nearest integer and |f| <= 1/2,
\* e^f by its Taylor series to the sixth power, times the tabulated e^k
Exp(a) ==
    LET k  == RoundDiv(a, AU)
        f  == a - k * AU
        t1 == f * 100
        t2 == (f * f + 100) \div 200
        t3 == MulDiv(t2, f, 3 * AU)
        t4 == MulDiv(t3, f, 4 * AU)
        t5 == MulDiv(t4, f, 5 * AU)
        t6 == MulDiv(t5, f, 6 * AU)
        ef == GU + t1 + t2 + t3 + t4 + t5 + t6
    IN IF k >= 8 THEN MaxExp
       ELSE IF k >= 0 THEN MulDiv(ExpPos[k + 1], ef, 1000)
       ELSE IF k < -21 THEN 0
       ELSE RoundDiv(Mul6(ExpNeg[1 - k], ef), 1000)

\* np.clip(x, lo, hi)
Clip(x, lo, hi) == Max2(lo, Min2(hi, x))

\* ------------------------------------------------------------------------
\* model.py: class Model
\* ------------------------------------------------------------------------

\* Model.safe_exp: clip to [-50, 50], then exp
safe_exp(x) == Exp(Clip(x, -50 * AU, 50 * AU))

\* the exp argument -(v)/D of the rate functions, v in 1e-3 mV
NegOver(v, D) == RoundDiv(-(v * 10), D)

\* a variant of alpha_n whose override window is 1 mV wide on each side
alpha_n_wide(V) ==
    IF Abs(V + 55000) < 1000
    THEN 100000
    ELSE DivFix6(10 * (V + 55000), GU - safe_exp(NegOver(V + 55000, 10)))

\* Model.alpha_n: the override is |V + 55| < 1e-6, which at 1e-3 mV holds
\* exactly when V + 55 = 0
alpha_n(V) ==
    IF Abs(V + 55000) < 1
    THEN 100000
    ELSE DivFix6(10 * (V + 55000), GU - safe_exp(NegOver(V + 55000, 10)))

\* Model.beta_n
beta_n(V) == MulDiv(safe_exp(NegOver(V + 65000, 80)), 125, 1000)

\* Model.alpha_m
alpha_m(V) ==
    IF Abs(V + 40000) < 1
    THEN 1000000
    ELSE DivFix6(100 * (V + 40000), GU - safe_exp(NegOver(V + 40000, 10)))

\* Model.beta_m
beta_m(V) == 4 * safe_exp(NegOver(V + 65000, 18))

\* Model.alpha_h
alpha_h(V) == MulDiv(safe_exp(NegOver(V + 65000, 20)), 7, 100)

\* Model.beta_h
beta_h(V) == DivFix6(GU, GU + safe_exp(NegOver(V + 35000, 10)))

\* the seven parameter names, in the order of Model.neuron_params
ParamNames == <<"C_m", "g_Na", "g_K", "g_L", "E_Na", "E_K", "E_L">>

Params == {ParamNames[i] : i \in 1..Len(ParamNames)}

\* Model.neuron_params: (min, max, default) of every parameter, in 1e-3
neuron_params ==
    [p \in Params |->
        CASE p = "C_m"  -> [min |-> 100,     max |-> 5000,   default |-> 1000]
          [] p = "g_Na" -> [min |-> 50000,   max |-> 200000, default |-> 120000]
          [] p = "g_K"  -> [min |-> 10000,   max |-> 100000, default |-> 36000]
          [] p = "g_L"  -> [min |-> 100,     max |-> 2000,   default |-> 300]
          [] p = "E_Na" -> [min |-> 40000,   max |-> 70000,  default |-> 50000]
          [] p = "E_K"  -> [min |-> -100000, max |-> -50000, default |-> -77000]
          [] p = "E_L"  -> [min |-> -70000,  max |-> -30000, default |-> -54387]]

\* the steady-state value alpha / (alpha + beta) of a gating variable
GateInf(a, b) == DivFix6(a, a + b)

\* Model.__init__: default parameters, V = -65.0, gates at their steady state
ModelInit ==
    [C_m  |-> neuron_params["C_m"].default,
     g_Na |-> neuron_params["g_Na"].default,
     g_K  |-> neuron_params["g_K"].default,
     g_L  |-> neuron_params["g_L"].default,
     E_Na |-> neuron_params["E_Na"].default,
     E_K  |-> neuron_params["E_K"].default,
     E_L  |-> neuron_params["E_L"].default,
     V |-> -65000,
     m |-> GateInf(alpha_m(-65000), beta_m(-65000)),
     h |-> GateInf(alpha_h(-65000), beta_h(-65000)),
     n |-> GateInf(alpha_n(-65000), beta_n(-65000))]

\* dx = alpha_x(V) * (1 - x) - beta_x(V) * x
GateRate(a, b, x) == Mul6(a, GU - x) - Mul6(b, x)

\* x += dt * dx (dt in 1e-3 ms)
Euler(x, dx, dt_) == x + MulDiv(dx, dt_, 1000)

\* I_Na = g_Na * m^3 * h * (V - E_Na)
I_Na(g, m_, h_, V, E) == Mul6(Mul6(Mul6(g * 1000, Mul6(Mul6(m_, m_), m_)), h_), V - E)

\* I_K = g_K * n^4 * (V - E_K)
I_K(g, n_, V, E) == Mul6(Mul6(g * 1000, Mul6(Mul6(Mul6(n_, n_), n_), n_)), V - E)

\* I_L = g_L * (V - E_L)
I_L(g, V, E) == Mul6(g * 1000, V - E)

\* dV = (I_ext - I_Na - I_K - I_L) / C_m
dVdt(I_ext, iNa, iK, iL, C) == MulDiv(I_ext - iNa - iK - iL, 1000, C)

\* a variant of step that computes the currents from the gates as they were
\* before the step
step_stale_gates(mdl, dt_, I_ext) ==
    LET dm == GateRate(alpha_m(mdl.V), beta_m(mdl.V), mdl.m)
        dh == GateRate(alpha_h(mdl.V), beta_h(mdl.V), mdl.h)
        dn == GateRate(alpha_n(mdl.V), beta_n(mdl.V), mdl.n)
        iNa == I_Na(mdl.g_Na, mdl.m, mdl.h, mdl.V, mdl.E_Na)
        iK  == I_K(mdl.g_K, mdl.n, mdl.V, mdl.E_K)
        iL  == I_L(mdl.g_L, mdl.V, mdl.E_L)
        dV  == dVdt(I_ext, iNa, iK, iL, mdl.C_m)
    IN [mdl EXCEPT !.m = Euler(mdl.m, dm, dt_), !.h = Euler(mdl.h, dh, dt_),
                   !.n = Euler(mdl.n, dn, dt_), !.V = Euler(mdl.V, dV, dt_)]

\* Model.step: one forward-Euler step
step(mdl, dt_, I_ext) ==
    LET dm == GateRate(alpha_m(mdl.V), beta_m(mdl.V), mdl.m)
        dh == GateRate(alpha_h(mdl.V), beta_h(mdl.V), mdl.h)
        dn == GateRate(alpha_n(mdl.V), beta_n(mdl.V), mdl.n)
        m1 == Euler(mdl.m, dm, dt_)
        h1 == Euler(mdl.h, dh, dt_)
        n1 == Euler(mdl.n, dn, dt_)
        iNa == I_Na(mdl.g_Na, m1, h1, mdl.V, mdl.E_Na)
        iK  == I_K(mdl.g_K, n1, mdl.V, mdl.E_K)
        iL  == I_L(mdl.g_L, mdl.V, mdl.E_L)
        dV  == dVdt(I_ext, iNa, iK, iL, mdl.C_m)
    IN [mdl EXCEPT !.m = m1, !.h = h1, !.n = n1, !.V = Euler(mdl.V, dV, dt_)]


\* ------------------------------------------------------------------------
\* app.py: class App
\* ------------------------------------------------------------------------

VARIABLES
    model,                    \* self.model: V, m, h, n and the seven parameters
    param_spinboxes,          \* self.param_spinboxes[param].value()
    sim_time,                 \* self.sim_time
    dt,                       \* self.dt
    timer_interval,           \* self.timer_interval
    plot_sampling,            \* self.plot_sampling
    simulation_counter,       \* self.simulation_counter
    times,                    \* self.times
    Y,                        \* self.Y: the series Vs, m, h, n
    injection_amplitude,      \* self.injection_amplitude
    injection_duration,       \* self.injection_duration
    injection_end_time,       \* self.injection_end_time
    pause_when_steady,        \* self.pause_when_steady
    timer_active,             \* self.timer.isActive()
    inject_button,            \* self.inject_button.isEnabled()
    inject_and_pause_button,  \* self.inject_and_pause_button.isEnabled()
    hist,                     \* history: what has been called so far
    budget                    \* how many calls of each kind a run may make

vars == <<model, param_spinboxes, sim_time, dt, timer_interval, plot_sampling,
          simulation_counter, times, Y, injection_amplitude,
          injection_duration, injection_end_time, pause_when_steady,
          timer_active, inject_button, inject_and_pause_button, hist, budget>>

\* the fields written by the integration burst of update_simulation
burstVars == <<model, sim_time, simulation_counter, times, Y>>

\* the stimulus fields written by inject_current
stimVars == <<injection_amplitude, injection_duration, injection_end_time>>

\* the configuration fields, written by __init__ only
configVars == <<dt, timer_interval, plot_sampling, budget>>

\* the pause state: the timer and the two buttons toggle_pause enables
pauseVars == <<timer_active, inject_button, inject_and_pause_button>>

\* App.__init__: self.dt = 0.01 (in 1e-3 ms)
DefaultDt == 10

\* App.__init__: self.timer_interval = 5 (ms)
DefaultTimerInterval == 5

\* App.__init__: self.plot_sampling = 10
DefaultPlotSampling == 10

\* App.__init__: self.injection_amplitude = 10.0 (in 1e-3)
DefaultAmplitude == 10000

\* App.__init__: self.injection_duration = 1.0 (in 1e-3 ms)
DefaultDuration == 1000

\* update_simulation: len(self.Y['Vs']) >= 20*100
SteadyMinSamples == 20 * 100

\* update_simulation: self.Y['Vs'][-200:]
SteadyWindow == 200

\* update_simulation: max(recent_V) - min(recent_V) < 1.0 (in 1e-3 mV)
SteadyTolerance == 1000

\* QDoubleSpinBox.setDecimals(2): a spin box holds multiples of 0.01
SpinRound(v) == RoundDiv(v, 10) * 10

\* QDoubleSpinBox.setRange(min, max), setDecimals(2): the value a parameter
\* spin box takes when v is entered or set
SpinboxValue(p, v) ==
    SpinRound(Clip(v, neuron_params[p].min, neuron_params[p].max))

\* the history before any call: ticks counts update_simulation calls, fed is
\* the (pre-step time, I_ext) of the steps of the latest burst since the last
\* injection, n_inject counts inject_current calls, t0/amp/dur are the time
\* and the arguments of the last one and prev_end/prev_amp the pulse it
\* replaced, toggles, edits and resets count the toggle_pause calls, the
\* parameter entries and the reset_model_params calls, dropped counts the
\* resumes made with pause_when_steady set, edit is the last parameter entry
HistInit ==
    [ticks |-> 0, fed |-> <<>>, n_inject |-> 0, t0 |-> 0, amp |-> 0, dur |-> 0,
     prev_end |-> 0, prev_amp |-> 0, toggles |-> 0, edits |-> 0,
     resets |-> 0, dropped |-> 0, edit |-> [param |-> "C_m", value |-> 0]]

\* App.__init__ after self.model = Model(), with the configuration (dt,
\* timer_interval, plot_sampling) given by c and the call budget b
AppFields(c, b) ==
    /\ param_spinboxes = [p \in Params |-> SpinboxValue(p, neuron_params[p].default)]
    /\ sim_time = 0
    /\ dt = c.dt
    /\ timer_interval = c.timer_interval
    /\ plot_sampling = c.plot_sampling
    /\ simulation_counter = 0
    /\ times = <<>>
    /\ Y = [Vs |-> <<>>, m |-> <<>>, h |-> <<>>, n |-> <<>>]
    /\ injection_amplitude = DefaultAmplitude
    /\ injection_duration = DefaultDuration
    /\ injection_end_time = 0
    /\ pause_when_steady = FALSE
    /\ timer_active = TRUE
    /\ inject_button = TRUE
    /\ inject_and_pause_button = TRUE
    /\ hist = HistInit
    /\ budget = b

\* App.__init__
AppInit(c, b) ==
    /\ model = ModelInit
    /\ AppFields(c, b)

\* a variant of external_current that ignores the pulse's end time
external_current_unbounded(t) == injection_amplitude

\* a variant of external_current whose pulse includes its end time
external_current_inclusive(t) ==
    IF t <= injection_end_time THEN injection_amplitude ELSE 0

\* App.external_current
external_current(t) ==
    IF t < injection_end_time THEN injection_amplitude ELSE 0

\* a variant of Steps that makes up for the time spent paused: the burst is
\* doubled after each pause and resume
StepsCatchUp ==
    ((timer_interval * 1000) \div dt) * (1 + hist.toggles \div 2)

\* update_simulation: steps = int(self.timer_interval / self.dt)
Steps == (timer_interval * 1000) \div dt

\* a variant of IsSampleStep that records the first step of every
\* plot_sampling steps instead of the last
IsSampleStepFirst(counter) == (counter - 1) % plot_sampling = 0

\* update_simulation: self.simulation_counter % self.plot_sampling == 0
IsSampleStep(counter) == counter % plot_sampling = 0

\* the neuron states whose step (with dt <= 0.05 ms) stays within the
\* represented numbers: V in [-100, 120] mV, the gates in [-0.1, 1.1] and
\* the parameters within the ranges of neuron_params
InRange(mdl) ==
    /\ mdl.V >= -100 * 1000 /\ mdl.V <= 120 * 1000
    /\ \A p \in Params :
          mdl[p] >= neuron_params[p].min /\ mdl[p] <= neuron_params[p].max
    /\ \A g \in {mdl.m, mdl.h, mdl.n} : g >= -(GU \div 10) /\ g <= GU + GU \div 10

\* update_simulation: the body of the for loop, on the burst state b.  A
\* burst whose neuron state has left the represented range is marked and
\* makes no further pass
BurstStep(b) ==
    LET I_ext == external_current(b.sim_time)
        mdl   == step(b.model, dt, I_ext)
        t     == b.sim_time + dt
        c     == b.simulation_counter + 1
        fed   == Append(b.fed, [t |-> b.sim_time, I |-> I_ext])
    IN IF b.diverged \/ ~InRange(b.model)
       THEN [b EXCEPT !.diverged = TRUE]
       ELSE IF IsSampleStep(c)
       THEN [model |-> mdl, sim_time |-> t, simulation_counter |-> c,
             times |-> Append(b.times, t),
             Vs |-> Append(b.Vs, mdl.V), m |-> Append(b.m, mdl.m),
             h |-> Append(b.h, mdl.h), n |-> Append(b.n, mdl.n), fed |-> fed,
             diverged |-> FALSE]
       ELSE [b EXCEPT !.model = mdl, !.sim_time = t,
                      !.simulation_counter = c, !.fed = fed]

RECURSIVE Burst(_, _)
\* update_simulation: for _ in range(k), from the burst state b; the k
\* passes are made as the first k \div 2, then the rest from their result
Burst(k, b) ==
    IF k <= 0 THEN b
    ELSE IF k = 1 THEN BurstStep(b)
    ELSE CHOOSE r \in {Burst(k - k \div 2, half) :
                           half \in {Burst(k \div 2, b)}} : TRUE

\* the largest and the smallest element of a non-empty set of integers
SetMax(S) == CHOOSE x \in S : \A y \in S : y <= x

SetMin(S) == CHOOSE x \in S : \A y \in S : x <= y

\* seq[-k:]: the last k elements of seq (all of it when it is shorter)
LastK(seq, k) ==
    SubSeq(seq, Max2(1, Len(seq) - k + 1), Len(seq))

\* max(recent_V) - min(recent_V)
Spread(seq) ==
    LET S == {seq[i] : i \in 1..Len(seq)} IN SetMax(S) - SetMin(S)

\* update_simulation: the steady-state test made after the burst
SteadyReached(flag, Vs) ==
    /\ flag
    /\ Len(Vs) >= SteadyMinSamples
    /\ Spread(LastK(Vs, SteadyWindow)) < SteadyTolerance

\* a variant of TimerFires: update_simulation called whatever the timer's
\* state
TimerFiresAlways == TRUE

\* the timeout signal reaches update_simulation only while the timer runs
TimerFires == timer_active

\* App.update_simulation; a burst that leaves the represented range is not
\* followed
update_simulation ==
    /\ TimerFires
    /\ hist.ticks < budget.ticks
    /\ \E b \in {Burst(Steps,
                        [model |-> model, sim_time |-> sim_time,
                         simulation_counter |-> simulation_counter,
                         times |-> times, Vs |-> Y.Vs, m |-> Y.m, h |-> Y.h,
                         n |-> Y.n, fed |-> <<>>, diverged |-> FALSE])} :
          /\ ~b.diverged
          /\ model' = b.model
          /\ sim_time' = b.sim_time
          /\ simulation_counter' = b.simulation_counter
          /\ times' = b.times
          /\ Y' = [Vs |-> b.Vs, m |-> b.m, h |-> b.h, n |-> b.n]
          /\ hist' = [hist EXCEPT !.ticks = @ + 1, !.fed = b.fed]
          /\ IF SteadyReached(pause_when_steady, b.Vs)
             THEN \* self.toggle_pause() with the timer active, then the flag
                  /\ timer_active' = FALSE
                  /\ inject_button' = FALSE
                  /\ inject_and_pause_button' = FALSE
                  /\ pause_when_steady' = FALSE
             ELSE UNCHANGED <<pauseVars, pause_when_steady>>
    /\ UNCHANGED <<param_spinboxes, stimVars, configVars>>

\* the user operations made so far: injections, pause toggles, parameter
\* entries and resets
UserOps == hist.n_inject + hist.toggles + hist.edits + hist.resets

\* a variant of InjectionEnd under which a new pulse never shortens the
\* one in progress
InjectionEndExtend(t, d) == Max2(injection_end_time, t + d)

\* inject_current: self.injection_end_time = self.sim_time + duration
InjectionEnd(t, d) == t + d

\* the history entry of an inject_current call
HistInject(a, d) ==
    [hist EXCEPT !.n_inject = @ + 1, !.t0 = sim_time, !.amp = a, !.dur = d,
                 !.prev_end = injection_end_time,
                 !.prev_amp = injection_amplitude,
                 !.fed = <<>>]

\* App.inject_current, with the spin boxes reading a and d
inject_current(a, d) ==
    /\ inject_button
    /\ hist.n_inject < budget.injects
    /\ UserOps < budget.ops
    /\ injection_amplitude' = a
    /\ injection_duration' = d
    /\ injection_end_time' = InjectionEnd(sim_time, d)
    /\ hist' = HistInject(a, d)
    /\ UNCHANGED <<burstVars, param_spinboxes, pause_when_steady, pauseVars,
                   configVars>>

\* App.inject_and_pause
inject_and_pause(a, d) ==
    /\ inject_and_pause_button
    /\ hist.n_inject < budget.injects
    /\ UserOps < budget.ops
    /\ injection_amplitude' = a
    /\ injection_duration' = d
    /\ injection_end_time' = InjectionEnd(sim_time, d)
    /\ pause_when_steady' = TRUE
    /\ hist' = HistInject(a, d)
    /\ UNCHANGED <<burstVars, param_spinboxes, pauseVars, configVars>>

\* a variant of ResumeFlag under which a resume keeps the pending request
ResumeFlagKept(flag) == flag

\* toggle_pause, else branch: whether resuming clears pause_when_steady
ResumeFlag(flag) == FALSE

\* a variant of toggle_pause whose resume branch enables inject_button only
toggle_pause_one_button ==
    /\ hist.toggles < budget.toggles
    /\ UserOps < budget.ops
    /\ IF timer_active
       THEN /\ timer_active' = FALSE
            /\ inject_button' = FALSE
            /\ inject_and_pause_button' = FALSE
            /\ UNCHANGED pause_when_steady
       ELSE /\ timer_active' = TRUE
            /\ inject_button' = TRUE
            /\ UNCHANGED inject_and_pause_button
            /\ pause_when_steady' = ResumeFlag(pause_when_steady)
    /\ hist' = [hist EXCEPT !.toggles = @ + 1]
    /\ UNCHANGED <<burstVars, param_spinboxes, stimVars, configVars>>

\* App.toggle_pause
toggle_pause ==
    /\ hist.toggles < budget.toggles
    /\ UserOps < budget.ops
    /\ IF timer_active
       THEN /\ timer_active' = FALSE
            /\ inject_button' = FALSE
            /\ inject_and_pause_button' = FALSE
            /\ UNCHANGED pause_when_steady
       ELSE /\ timer_active' = TRUE
            /\ inject_button' = TRUE
            /\ inject_and_pause_button' = TRUE
            /\ pause_when_steady' = ResumeFlag(pause_when_steady)
    /\ hist' = [hist EXCEPT !.toggles = @ + 1,
                            !.dropped = IF ~timer_active /\ pause_when_steady
                                        THEN @ + 1 ELSE @]
    /\ UNCHANGED <<burstVars, param_spinboxes, stimVars, configVars>>

\* App.update_model_parameter: setattr(self.model, param, value)
update_model_parameter(mdl, p, v) == [mdl EXCEPT ![p] = v]

\* a parameter spin box is edited to v: it takes SpinboxValue(p, v) and, when
\* that changes its value, valueChanged calls update_model_parameter
spinbox_edit(p, v) ==
    /\ hist.edits + hist.resets < budget.edits
    /\ UserOps < budget.ops
    /\ SpinboxValue(p, v) # param_spinboxes[p]
    /\ param_spinboxes' = [param_spinboxes EXCEPT ![p] = SpinboxValue(p, v)]
    /\ model' = update_model_parameter(model, p, SpinboxValue(p, v))
    /\ hist' = [hist EXCEPT !.edits = @ + 1,
                            !.edit = [param |-> p, value |-> v]]
    /\ UNCHANGED <<sim_time, simulation_counter, times, Y, stimVars,
                   pause_when_steady, pauseVars, configVars>>

\* a variant of ResetOne without the setattr: the model takes the default
\* only through the spin box's valueChanged
ResetOneSpinOnly(s, p) ==
    LET sv == SpinboxValue(p, neuron_params[p].default)
    IN [boxes |-> [s.boxes EXCEPT ![p] = sv],
        model |-> IF sv # s.boxes[p]
                  THEN update_model_parameter(s.model, p, sv)
                  ELSE s.model]

\* reset_model_params: one pass of the loop, for parameter p, on the pair
\* (spin boxes, model): setValue(default), whose valueChanged stores the spin
\* box value, then setattr(self.model, param, default)
ResetOne(s, p) ==
    LET sv == SpinboxValue(p, neuron_params[p].default)
        m1 == IF sv # s.boxes[p]
              THEN update_model_parameter(s.model, p, sv)
              ELSE s.model
    IN [boxes |-> [s.boxes EXCEPT ![p] = sv],
        model |-> update_model_parameter(m1, p, neuron_params[p].default)]

RECURSIVE ResetLoop(_, _)
\* reset_model_params: the loop over the first i parameters
ResetLoop(i, s) ==
    IF i = 0 THEN s ELSE ResetOne(ResetLoop(i - 1, s), ParamNames[i])

\* App.reset_model_params
reset_model_params ==
    /\ hist.edits + hist.resets < budget.edits
    /\ UserOps < budget.ops
    /\ LET r == ResetLoop(Len(ParamNames),
                          [boxes |-> param_spinboxes, model |-> model])
       IN /\ param_spinboxes' = r.boxes
          /\ model' = r.model
    /\ hist' = [hist EXCEPT !.resets = @ + 1]
    /\ UNCHANGED <<sim_time, simulation_counter, times, Y, stimVars,
                   pause_when_steady, pauseVars, configVars>>

\* the values entered in a parameter spin box: below and above its range,
\* and a value inside it
EditValues(p) ==
    {neuron_params[p].min - 1000, neuron_params[p].max + 1000,
     (neuron_params[p].min + neuron_params[p].max) \div 2}

\* budget.stimuli: the (amplitude, duration) pairs read from
\* injectionAmplitudeSpinBox (range -1000..1000) and
\* injectionDurationSpinBox (range 0..1000); budget.params: the parameter
\* spin boxes that are edited
Next ==
    \/ update_simulation
    \/ \E s \in budget.stimuli : inject_current(s.a, s.d)
    \/ \E s \in budget.stimuli : inject_and_pause(s.a, s.d)
    \/ toggle_pause
    \/ \E p \in budget.params : \E v \in EditValues(p) : spinbox_edit(p, v)
    \/ reset_model_params

\* the stimuli: the default amplitude for longer than a tick of the small
\* configurations, a negative pulse that ends inside a step, and an empty one
Stimuli ==
    {[a |-> 10000, d |-> 1500], [a |-> -5000, d |-> 30], [a |-> 10000, d |-> 0]}

\* a run's budget: at most t update_simulation calls, i inject_current
\* calls, g toggle_pause calls and e parameter entries and resets, o of
\* these user operations in all, over the stimuli S and the parameter spin
\* boxes P
Budget(t, i, g, e, o, S, P) ==
    [ticks |-> t, injects |-> i, toggles |-> g, edits |-> e, ops |-> o,
     stimuli |-> S, params |-> P]

\* ------------------------------------------------------------------------
\* Spec: the scheduler under small configurations
\* ------------------------------------------------------------------------

MaxTicks == 3

MaxInjects == 1

MaxToggles == 2

MaxEdits == 1

MaxOps == 3

\* the configurations (dt, timer_interval, plot_sampling) of Spec: 20 steps
\* per tick sampled every 3rd step, and 33 steps per tick (1 / 0.03, rounded
\* down) sampled every 11th
Configs ==
    {[dt |-> 50, timer_interval |-> 1, plot_sampling |-> 3],
     [dt |-> 30, timer_interval |-> 1, plot_sampling |-> 11]}

Init ==
    \E c \in Configs :
        AppInit(c, Budget(MaxTicks, MaxInjects, MaxToggles, MaxEdits,
                          MaxOps,
                          Stimuli, {"C_m"}))

Spec == Init /\ [][Next]_vars

\* ------------------------------------------------------------------------
\* SpecStim: the stimulus, with two injections
\* ------------------------------------------------------------------------

StimTicks == 3

StimInjects == 2

StimToggles == 1

StimEdits == 1

StimOps == 3

InitStim ==
    AppInit([dt |-> 50, timer_interval |-> 1, plot_sampling |-> 3],
            Budget(StimTicks, StimInjects, StimToggles, StimEdits,
                   StimOps,
                   Stimuli, {"C_m"}))

SpecStim == InitStim /\ [][Next]_vars

\* ------------------------------------------------------------------------
\* SpecParams: the parameters, with every spin box edited
\* ------------------------------------------------------------------------

ParamTicks == 1

ParamInjects == 1

ParamToggles == 1

ParamEdits == 2

ParamOps == 2

InitParams ==
    AppInit([dt |-> 50, timer_interval |-> 1, plot_sampling |-> 3],
            Budget(ParamTicks, ParamInjects, ParamToggles, ParamEdits,
                   ParamOps,
                   {[a |-> -5000, d |-> 30]}, Params))

SpecParams == InitParams /\ [][Next]_vars

\* ------------------------------------------------------------------------
\* SpecSteady: the steady-state pause, from the constructor's configuration
\* (500 steps per tick, 50 samples per tick) and from one that records 400
\* samples per tick
\* ------------------------------------------------------------------------

SteadyTicks == 5

SteadyInjects == 1

SteadyToggles == 1

SteadyEdits == 1

SteadyOps == 2

SteadyConfigs ==
    {[dt |-> DefaultDt, timer_interval |-> DefaultTimerInterval,
      plot_sampling |-> DefaultPlotSampling],
     [dt |-> 50, timer_interval |-> 20, plot_sampling |-> 1]}

InitSteady ==
    \E c \in SteadyConfigs :
        AppInit(c, Budget(SteadyTicks, SteadyInjects, SteadyToggles,
                          SteadyEdits, SteadyOps,
                          {[a |-> DefaultAmplitude, d |-> DefaultDuration],
                           [a |-> DefaultAmplitude, d |-> 0]},
                          {"C_m"}))

SpecSteady == InitSteady /\ [][Next]_vars

\* ------------------------------------------------------------------------
\* SpecResume: pause, resume and the steady-state pause, in a configuration
\* that records 1000 samples per tick, with a stimulus that leaves the
\* neuron at rest
\* ------------------------------------------------------------------------

ResumeTicks == 2

ResumeInjects == 1

ResumeToggles == 2

ResumeEdits == 1

ResumeOps == 3

InitResume ==
    AppInit([dt |-> 50, timer_interval |-> 50, plot_sampling |-> 1],
            Budget(ResumeTicks, ResumeInjects, ResumeToggles, ResumeEdits,
                   ResumeOps,
                   {[a |-> DefaultAmplitude, d |-> 0]}, {"C_m"}))

SpecResume == InitResume /\ [][Next]_vars

\* ------------------------------------------------------------------------
\* SpecCalls: SpecParams with update_model_parameter also called as a
\* method, with any value
\* ------------------------------------------------------------------------

\* App.update_model_parameter(p, v) called directly
set_parameter(p, v) ==
    /\ hist.edits + hist.resets < budget.edits
    /\ UserOps < budget.ops
    /\ model' = update_model_parameter(model, p, v)
    /\ hist' = [hist EXCEPT !.edits = @ + 1,
                            !.edit = [param |-> p, value |-> v]]
    /\ UNCHANGED <<param_spinboxes, sim_time, simulation_counter, times, Y,
                   stimVars, pause_when_steady, pauseVars, configVars>>

NextCalls ==
    \/ Next
    \/ \E p \in budget.params : \E v \in EditValues(p) : set_parameter(p, v)

SpecCalls == InitParams /\ [][NextCalls]_vars

\* ------------------------------------------------------------------------
\* SpecStep: Model.step on its own, from a grid of neuron states
\* ------------------------------------------------------------------------

\* the number of consecutive step calls
StepCalls == 2

\* membrane potentials (1e-3 mV): hyperpolarised, rest, the removable
\* singularities of alpha_n (-55) and alpha_m (-40), and depolarised
StepVs == {-80000, -65000, -55000, -40000, 0, 30000}

\* gating values (1e-6)
StepGates == {50000, 600000, 950000}

\* external currents (1e-3)
StepCurrents == {0, 10000, -5000}

\* step sizes (1e-3 ms)
StepDts == {10, 50}

\* the neuron states a step is applied to: default parameters, or a smaller
\* capacitance, with V and the gates on the grid
StepModels ==
    {[ModelInit EXCEPT !.V = v, !.m = g[1], !.h = g[2], !.n = g[3], !.C_m = c] :
        v \in StepVs,
        g \in StepGates \X {600000, 50000} \X {300000, 700000},
        c \in {1000, 2000}}

InitStep ==
    /\ model \in StepModels
    /\ \E d \in StepDts :
          AppFields([dt |-> d, timer_interval |-> DefaultTimerInterval,
                     plot_sampling |-> DefaultPlotSampling],
                    Budget(StepCalls, 0, 0, 0, 0, {}, {}))

\* self.model.step(self.dt, I_ext) with an arbitrary current; the history
\* keeps the current and the potential the step started from
model_step(I_ext) ==
    /\ hist.ticks < budget.ticks
    /\ InRange(model)
    /\ model' = step(model, dt, I_ext)
    /\ hist' = [hist EXCEPT !.ticks = @ + 1,
                            !.fed = <<[t |-> sim_time, I |-> I_ext,
                                       V |-> model.V]>>]
    /\ UNCHANGED <<param_spinboxes, sim_time, simulation_counter, times, Y,
                   stimVars, pause_when_steady, pauseVars, configVars>>

NextStep == \E I_ext \in StepCurrents : model_step(I_ext)

SpecStep == InitStep /\ [][NextStep]_vars

\* ------------------------------------------------------------------------
\* SpecRates: Model.step from potentials at and around the removable
\* singularities of alpha_n (-55 mV) and alpha_m (-40 mV)
\* ------------------------------------------------------------------------

\* the number of consecutive step calls
RateCalls == 1

\* the potentials next to a singularity: every 1e-3 mV up to RateNear away
RateNear == 5

\* the potentials around a singularity: every 0.1 mV up to RateSpan tenths
\* of a mV away
RateSpan == 20

\* the distances from a singularity (1e-3 mV), 0 included
RateOffsets ==
    (-RateNear .. RateNear) \cup {100 * k : k \in -RateSpan .. RateSpan}

\* the neuron state of Model.__init__ with V at or around a singularity
RateModels ==
    {[ModelInit EXCEPT !.V = v0 + x] : v0 \in {-55000, -40000}, x \in RateOffsets}

InitRates ==
    /\ model \in RateModels
    /\ AppFields([dt |-> DefaultDt, timer_interval |-> DefaultTimerInterval,
                  plot_sampling |-> DefaultPlotSampling],
                 Budget(RateCalls, 0, 0, 0, 0, {}, {}))

SpecRates == InitRates /\ [][NextStep]_vars

\* ------------------------------------------------------------------------
\* Properties
\* ------------------------------------------------------------------------

\* C1: with dt and timer_interval fixed, after k update_simulation calls
\* (with injections, pauses, resumes and parameter entries in between)
\* sim_time is k * floor(timer_interval / dt) * dt, and exactly
\* k * floor(timer_interval / dt) integration steps have been made: no tick
\* makes more steps to catch up for the time spent paused.
C1_FixedStepsPerTick ==
    LET stepsPerTick == (timer_interval * 1000) \div dt
    IN /\ sim_time = hist.ticks * stepsPerTick * dt
       /\ simulation_counter = hist.ticks * stepsPerTick

\* two ticks of the configuration whose timer_interval is not a multiple of
\* dt, with an injection and a pause and resume made along the way
C1_Witness ==
    /\ hist.ticks >= 2
    /\ hist.toggles = 2 /\ timer_active
    /\ hist.n_inject = 1
    /\ (timer_interval * 1000) % dt # 0
    /\ sim_time = hist.ticks * 990

C3_Decimation ==
    LET k == simulation_counter \div plot_sampling
    IN /\ Len(times) = k
       /\ Len(Y.Vs) = k /\ Len(Y.m) = k /\ Len(Y.h) = k /\ Len(Y.n) = k
       /\ \A i \in 1..Len(times) : times[i] = i * plot_sampling * dt

\* two ticks whose step count is not a multiple of plot_sampling, the second
\* of which recorded more samples than a tick's floor(steps / N)
C3_Witness ==
    /\ hist.ticks = 2
    /\ ((timer_interval * 1000) \div dt) % plot_sampling # 0
    /\ Len(times) > 2 * (((timer_interval * 1000) \div dt) \div plot_sampling)

\* C4: a tick that ends with pause_when_steady set, at least 200 recorded
\* samples and max(V) - min(V) < 1.0 mV over the last 200 stops the timer
\* and clears pause_when_steady; any other tick leaves both as they were.
C4_PauseAfter200Samples ==
    [][hist'.ticks # hist.ticks =>
          IF /\ pause_when_steady
             /\ Len(Y'.Vs) >= 200
             /\ Spread(LastK(Y'.Vs, 200)) < 1000
          THEN ~timer_active' /\ ~pause_when_steady'
          ELSE /\ timer_active' = timer_active
               /\ pause_when_steady' = pause_when_steady]_vars

\* C5: with pause_when_steady set and a constant recorded V trace, the timer
\* is stopped by the first tick that leaves the 200-sample look-back window
\* full: no state after such a tick has the timer running with the flag set.
C5_PausedOnceWindowFull ==
    ~(/\ pause_when_steady /\ timer_active
      /\ hist.fed # <<>>
      /\ Len(Y.Vs) >= SteadyWindow
      /\ Spread(Y.Vs) = 0)

\* C6: after inject_current(amp, dur) at time t0, every step of a tick whose
\* pre-step time t is below t0 + dur is fed amp and every other step 0 (so
\* none is fed amp when dur = 0); inject_current itself leaves sim_time, the
\* neuron state, the step counter, the series and the timer as they were.
C6_PulseWindow ==
    [][/\ (hist'.ticks # hist.ticks /\ hist.n_inject >= 1) =>
             \A i \in DOMAIN hist'.fed :
                 hist'.fed[i].I = IF hist'.fed[i].t < hist.t0 + hist.dur
                                  THEN hist.amp ELSE 0
       /\ hist'.n_inject # hist.n_inject =>
             /\ injection_amplitude' = hist'.amp
             /\ injection_duration' = hist'.dur
             /\ UNCHANGED <<sim_time, model, simulation_counter, times, Y,
                            timer_active>>]_vars

\* a tick during which a pulse of non-zero amplitude ended
C6_Witness ==
    /\ hist.n_inject >= 1 /\ hist.amp # 0 /\ hist.dur > 0
    /\ \E i, j \in DOMAIN hist.fed :
          /\ hist.fed[i].t < hist.t0 + hist.dur /\ hist.fed[i].I = hist.amp
          /\ hist.fed[j].t >= hist.t0 + hist.dur /\ hist.fed[j].I = 0

\* C7: after a second inject_current the pulse is the new one alone: its end
\* is the call's sim_time + duration, even when earlier than the previous
\* end, and every later step is fed the new amplitude or 0.
C7_SecondPulseReplaces ==
    hist.n_inject >= 2 =>
        /\ injection_end_time = hist.t0 + hist.dur
        /\ injection_amplitude = hist.amp
        /\ \A i \in DOMAIN hist.fed : hist.fed[i].I \in {hist.amp, 0}

\* a second injection made while the first pulse was active, ending earlier
\* than it, followed by a tick with steps inside the first pulse's span
C7_Witness ==
    /\ hist.n_inject = 2
    /\ hist.prev_end > hist.t0
    /\ injection_end_time < hist.prev_end
    /\ hist.prev_amp # 0 /\ hist.amp # 0
    /\ hist.prev_amp + hist.amp \notin {hist.amp, 0}
    /\ \E i \in DOMAIN hist.fed :
          /\ hist.fed[i].t >= injection_end_time
          /\ hist.fed[i].t < hist.prev_end
          /\ hist.fed[i].I = 0

\* C8: Model.step(dt, I_ext) sets m, h, n to their Euler update from the
\* pre-step V, m, h, n, and V to V + dt * (I_ext - I_Na - I_K - I_L) / C_m
\* with the currents taken from the updated m, h, n and the pre-step V; it
\* changes no parameter.
C8_StepReference ==
    [][hist'.ticks # hist.ticks =>
          LET I_ext == hist'.fed[1].I
              V  == model.V
              m1 == Euler(model.m, GateRate(alpha_m(V), beta_m(V), model.m), dt)
              h1 == Euler(model.h, GateRate(alpha_h(V), beta_h(V), model.h), dt)
              n1 == Euler(model.n, GateRate(alpha_n(V), beta_n(V), model.n), dt)
              dV == dVdt(I_ext,
                         I_Na(model.g_Na, m1, h1, V, model.E_Na),
                         I_K(model.g_K, n1, V, model.E_K),
                         I_L(model.g_L, V, model.E_L),
                         model.C_m)
          IN model' = [model EXCEPT !.m = m1, !.h = h1, !.n = n1,
                                    !.V = Euler(V, dV, dt)]]_vars

\* two steps with a current, after which the gates and V are off the grid
C8_Witness ==
    /\ hist.ticks = StepCalls
    /\ hist.fed[1].I # 0
    /\ model.V \notin StepVs
    /\ model.m \notin StepGates /\ model.n \notin StepGates

\* C9: the constructed model holds the seven defaults, and
\* reset_model_params restores them all without changing V, m, h, n,
\* sim_time or the timer.
C9_DefaultsAndReset ==
    [][/\ (hist.edits = 0 /\ hist.resets = 0) =>
             /\ model.C_m = 1000 /\ model.g_Na = 120000 /\ model.g_K = 36000
             /\ model.g_L = 300 /\ model.E_Na = 50000 /\ model.E_K = -77000
             /\ model.E_L = -54387
       /\ hist'.resets # hist.resets =>
             /\ model'.C_m = 1000 /\ model'.g_Na = 120000
             /\ model'.g_K = 36000 /\ model'.g_L = 300
             /\ model'.E_Na = 50000 /\ model'.E_K = -77000
             /\ model'.E_L = -54387
             /\ model'.V = model.V /\ model'.m = model.m
             /\ model'.h = model.h /\ model'.n = model.n
             /\ sim_time' = sim_time
             /\ timer_active' = timer_active]_vars

\* a reset made after a tick and an entry in the E_L spin box
C9_Witness ==
    /\ hist.resets = 1 /\ hist.edits = 1 /\ hist.ticks = 1
    /\ hist.edit.param = "E_L"
    /\ model.E_L = -54387
    /\ param_spinboxes["E_L"] = -54390

\* C10: after any sequence of update_model_parameter and reset_model_params
\* calls every parameter of the model lies within its (min, max) of
\* neuron_params.
C10_ParamsInRange ==
    \A p \in Params :
        model[p] >= neuron_params[p].min /\ model[p] <= neuron_params[p].max

\* C11: alpha_n(V) is exactly 0.1 at V = -55 and alpha_m(V) exactly 1.0 at
\* V = -40 (at 1e-3 mV, the only potentials within 1e-6 of them); at every
\* other potential the denominator 1 - exp(-(V + 55) / 10), resp.
\* 1 - exp(-(V + 40) / 10), is not zero and the function is the quotient.
C11_SingularitiesOverridden ==
    LET V  == model.V
        dn == GU - safe_exp(NegOver(V + 55000, 10))
        dm == GU - safe_exp(NegOver(V + 40000, 10))
    IN /\ V # -55000 => dn # 0
       /\ V # -40000 => dm # 0
       /\ alpha_n(V) = IF V = -55000 THEN 100000
                       ELSE DivFix6(10 * (V + 55000), dn)
       /\ alpha_m(V) = IF V = -40000 THEN 1000000
                       ELSE DivFix6(100 * (V + 40000), dm)

\* a step taken from V = -55 exactly, which left the gates within [0, 1]
C11_Witness ==
    /\ hist.ticks = 1
    /\ hist.fed[1].V = -55000
    /\ model.n > 0 /\ model.n < GU
    /\ model.m > 0 /\ model.m < GU

\* C12: pause_when_steady is false after every resume and after every tick
\* that stops the timer; a tick stops the timer only with the flag set, and
\* only inject_and_pause sets it: a request dropped by a resume stays
\* dropped until inject_and_pause is called again.
C12_ResumeDropsRequest ==
    [][/\ (~timer_active /\ timer_active') => ~pause_when_steady'
       /\ (hist'.ticks # hist.ticks /\ ~timer_active') =>
             (pause_when_steady /\ ~pause_when_steady')
       /\ (~pause_when_steady /\ pause_when_steady') =>
             hist'.n_inject # hist.n_inject]_vars

\* inject_and_pause, then a pause and a resume that dropped the request,
\* then ticks that left 2000 steady samples with the timer still running
C12_Witness ==
    /\ hist.dropped >= 1
    /\ timer_active /\ ~pause_when_steady
    /\ hist.fed # <<>>
    /\ Len(Y.Vs) >= SteadyMinSamples
    /\ Spread(LastK(Y.Vs, SteadyWindow)) < SteadyTolerance

\* C13: in every state inject_button and inject_and_pause_button are
\* enabled exactly when the timer is active, and no step taken while the
\* timer is stopped changes injection_amplitude, injection_duration or
\* injection_end_time.
C13_InjectOnlyWhileRunning ==
    /\ [](/\ inject_button = timer_active
          /\ inject_and_pause_button = timer_active)
    /\ [][~timer_active => UNCHANGED stimVars]_vars

\* the timer stopped by a tick (no toggle_pause call was made) once 2000
\* samples were recorded, with both buttons disabled
C13_Witness ==
    /\ ~timer_active
    /\ hist.toggles = 0 /\ hist.n_inject = 1
    /\ ~inject_button /\ ~inject_and_pause_button
    /\ Len(Y.Vs) >= SteadyMinSamples

\* C14: as long as inject_current has not been called, injection_amplitude
\* is the default 10.0, injection_end_time is 0.0 and every step of every
\* tick is fed I_ext = 0, the step at sim_time = 0 included.
C14_NoCurrentBeforeInjection ==
    hist.n_inject = 0 =>
        /\ injection_amplitude = 10000
        /\ injection_end_time = 0
        /\ \A i \in DOMAIN hist.fed : hist.fed[i].I = 0

\* the last tick of a run without injection, every step of it recorded and
\* the neuron still at rest
C14_Witness ==
    /\ hist.n_inject = 0
    /\ injection_amplitude # 0
    /\ hist.ticks = budget.ticks
    /\ Len(hist.fed) = Steps
    /\ hist.fed[1].t = (hist.ticks - 1) * Steps * dt
    /\ model.V = -65000

=============================================================================
